---- MODULE Spec2Model ----
(***************************************************************************)
(* Weight normalization and KPI application pipeline of E-Nirikshan.       *)
(*                                                                         *)
(* Numbers.  Every percentage the program stores went through              *)
(* parseFloat(x.toFixed(2)), so it is a whole number of hundredths; the    *)
(* model keeps percentages as integer hundredths (12.5 is 1250, 100 is     *)
(* 10000).  Raw weights handed to a normalizer are integers in any unit:   *)
(* the normalizers only look at the sign of a value and at value/total.    *)
(*                                                                         *)
(* Doubles.  The program computes on IEEE doubles, the model on exact      *)
(* numbers.  The two agree except where a double is compared at a point    *)
(* the exact value sits on: a quotient exactly between two hundredths      *)
(* (toFixed then follows the rounding error of the quotient).  There the   *)
(* model allows both outcomes.  The drifts (diff, correction) went through *)
(* toFixed(2) before they are compared, so they are exact hundredths.      *)
(*                                                                         *)
(* Mappings.  A JavaScript object with string keys iterates in insertion   *)
(* order and the code depends on that order (the "last key"), so a mapping *)
(* is a sequence of entries [k |-> key, v |-> value] with distinct keys.   *)
(***************************************************************************)
EXTENDS Integers, Sequences, FiniteSets, TLC

\* ------------------------------------------------------------------ bounds

\* Longest input mapping handed to a normalizer.
MaxKeys == 5

\* Keys of the normalizer inputs, in insertion order.
KeyNames == <<"a", "b", "c", "d", "e", "f">>

\* Raw weights of the normalizer inputs: non-positive ones, small ones, and a
\* pair large enough for a share to round to 0.00.
WeightValues == {-5, -1, 0, 1, 5, 6667, 26668}

\* ------------------------------------------------------- ordered mappings

Abs(n) == IF n < 0 THEN -n ELSE n

RECURSIVE SumSeq(_)
SumSeq(s) == IF s = <<>> THEN 0 ELSE Head(s) + SumSeq(Tail(s))

\* Object.keys(m)
ObjectKeys(m) == [i \in DOMAIN m |-> m[i].k]

\* Object.values(m)
ObjectValues(m) == [i \in DOMAIN m |-> m[i].v]

\* k in m
HasKey(m, k) == \E i \in DOMAIN m : m[i].k = k

\* m[k] || 0 : the value under k, 0 when k is absent (or its value is 0)
GetOrZero(m, k) == IF HasKey(m, k) THEN m[CHOOSE i \in DOMAIN m : m[i].k = k].v ELSE 0

\* m[k] = v : an existing key keeps its place, a new key goes last
SetKey(m, k, v) ==
    IF HasKey(m, k)
    THEN [i \in DOMAIN m |-> IF m[i].k = k THEN [k |-> k, v |-> v] ELSE m[i]]
    ELSE Append(m, [k |-> k, v |-> v])

\* Object.values(m).reduce((a, b) => a + b, 0)
SumValues(m) == SumSeq(ObjectValues(m))

\* (n / d) * 100 lies exactly between two hundredths
IsTie(n, d) == (2 * 10000 * Abs(n)) % (2 * Abs(d)) = Abs(d)

\* parseFloat(((n / d) * 100).toFixed(2)) in hundredths, for d # 0: toFixed
\* rounds the magnitude to the nearest hundredth and takes the larger one on
\* a tie.
ToFixed2Percent(n, d) ==
    LET q == (2 * 10000 * Abs(n) + Abs(d)) \div (2 * Abs(d))
    IN  IF (n < 0) # (d < 0) THEN -q ELSE q

\* the same with the double of a tie falling below it when down holds
ToFixed2PercentTie(n, d, down) ==
    LET q == ToFixed2Percent(n, d)
    IN  IF IsTie(n, d) /\ down THEN (IF q < 0 THEN q + 1 ELSE q - 1) ELSE q

\* ------------------------------------------- utils/normalizeWeights.ts

IsValidWeight(e) == e.v > 0

\* the filter with ">= 0" in place of "> 0"
filterValid_KeepsZero(raw) == SelectSeq(raw, LAMBDA e : e.v >= 0)

\* Object.fromEntries(Object.entries(raw).filter(...))
filterValid(raw) == SelectSeq(raw, IsValidWeight)

\* the equal split of the branch total === 0
equalShare(filtered) ==
    [i \in DOMAIN filtered |->
        [k |-> filtered[i].k, v |-> ToFixed2Percent(1, Len(filtered))]]

\* each value's share of the total, rounded to 2 decimals; down holds the
\* values whose share is a tie that the doubles place below the tie
proportionalTies(filtered, down) ==
    LET total == SumValues(filtered)
    IN  [i \in DOMAIN filtered |->
            [k |-> filtered[i].k,
             v |-> ToFixed2PercentTie(filtered[i].v, total, filtered[i].v \in down)]]

proportional(filtered) == proportionalTies(filtered, {})

\* the drift correction with its sign flipped (sum - 100 for 100 - sum)
fixDrift_WrongSign(normalized) ==
    LET diff    == SumValues(normalized) - 10000
        lastKey == Len(normalized)
    IN  IF diff # 0 /\ lastKey > 0
        THEN [normalized EXCEPT ![lastKey].v = @ + diff]
        ELSE normalized

\* the drift correction added to the first key
fixDrift_FirstKey(normalized) ==
    LET diff == 10000 - SumValues(normalized)
    IN  IF diff # 0 /\ Len(normalized) > 0
        THEN [normalized EXCEPT ![1].v = @ + diff]
        ELSE normalized

\* the drift correction: diff = 100 - sum, rounded to 2 decimals, added to
\* the last key when it is not 0
fixDrift(normalized) ==
    LET diff    == 10000 - SumValues(normalized)
        lastKey == Len(normalized)
    IN  IF diff # 0 /\ lastKey > 0
        THEN [normalized EXCEPT ![lastKey].v = @ + diff]
        ELSE normalized

normalizeWeightsTies(raw, down) ==
    IF Len(raw) = 0 THEN <<>>
    ELSE LET filtered == filterValid(raw)
         IN  IF Len(filtered) = 0 THEN <<>>
             ELSE IF SumValues(filtered) = 0 THEN equalShare(filtered)
             ELSE fixDrift(proportionalTies(filtered, down))

\* the values of raw whose share of the total is a tie
tieValues(raw) ==
    LET filtered == filterValid(raw)
        total    == SumValues(filtered)
    IN  {filtered[i].v : i \in {j \in DOMAIN filtered : IsTie(filtered[j].v, total)}}

\* normalizeWeights(raw) where no share is a tie: within the bounds of this
\* model that is every call but the one of analyzeOne, whose total of
\* 200.00 puts 15.79, 10.53 and 21.05 on a tie
normalizeWeights(raw) == normalizeWeightsTies(raw, {})

\* ---------------------- utils/ai/recalculateKPI.ts, the KPI-specific variant

\* keys.reduce((a, b) => normalized[a] > normalized[b] ? a : b), as an index
RECURSIVE largestKeyFrom(_, _, _)
largestKeyFrom(normalized, a, b) ==
    IF b > Len(normalized) THEN a
    ELSE largestKeyFrom(normalized,
                        IF normalized[a].v > normalized[b].v THEN a ELSE b,
                        b + 1)

\* the first of the keys that hold the largest value
largestKey_First(normalized) ==
    CHOOSE a \in DOMAIN normalized :
        /\ \A b \in DOMAIN normalized : normalized[b].v <= normalized[a].v
        /\ \A b \in 1..(a - 1) : normalized[b].v < normalized[a].v

largestKey(normalized) == largestKeyFrom(normalized, 1, 2)

\* correction is parseFloat((100 - currentTotal).toFixed(2)), a whole number
\* of hundredths, and is applied when it is more than one hundredth.  The
\* ties within the bounds, 6667/20000 and -1/20000, are doubles above the
\* tie, as ToFixed2Percent rounds them.
normalizeWeightsKPI(weights) ==
    IF Len(weights) = 0 THEN <<>>
    ELSE LET totalWeight == SumValues(weights)
         IN  IF totalWeight = 0
             THEN [i \in DOMAIN weights |->
                     [k |-> weights[i].k, v |-> ToFixed2Percent(1, Len(weights))]]
             ELSE LET normalized == [i \in DOMAIN weights |->
                                        [k |-> weights[i].k,
                                         v |-> ToFixed2Percent(weights[i].v, totalWeight)]]
                      correction == 10000 - SumValues(normalized)
                  IN  IF Abs(correction) > 1
                      THEN [normalized EXCEPT ![largestKey(normalized)].v = @ + correction]
                      ELSE normalized

\* ------------------------------------------------ the normalizers' inputs

\* raw    the mapping handed to a normalizer
\* out    the mapping it returned
\* fn     which normalizer ran: "plain" (utils/normalizeWeights.ts), "kpi"
\*        (the variant of utils/ai/recalculateKPI.ts), "none" before the call
VARIABLES raw, out, fn

normVars == <<raw, out, fn>>


\* ------------------------------------------------------------- the store

\* projects      the Project collection: per id, whether the document exists,
\*               whether it has kpiWeights, and the stored profile
\*               (entries [k, fieldWeight, hqWeight] in key order)
\* users         the User collection: the one employee's document
\* kpis          the Kpi collection in insertion order (the order find()
\*               returns documents in when no sort is given)
\* summaries     the periods for which a KpiSummary of the employee exists
\* dprCount      number of DPR documents
\* last          the request served last and its response
\* prev          what the request before it left: whether it was a successful
\*               ApplyProjectWeights, for what, and the project-specific
\*               records it left
\* applied       the projects whose weights were applied successfully so far
\* served        number of requests served
\* apars         the Apar collection in insertion order
\* inflight      the ApplyProjectWeights requests being served one database
\*               call at a time: per request, how far it got and what it
\*               holds in its local variables
VARIABLES projects, users, kpis, summaries, dprCount, last, prev, applied, served,
          apars, inflight

appVars == <<projects, users, kpis, summaries, dprCount, last, prev, applied, served,
             apars, inflight>>

\* The employee of the model, and an id no User document has.
Employee == "e1"
NoSuchUser == "e0"

\* Projects created through POST /api/projects, a project stored without
\* kpiWeights, and an id no Project document has.
CreatedProjects == {"p1", "p2"}
LegacyProject == "p0"
NoSuchProject == "px"
ProjectIds == CreatedProjects \cup {LegacyProject}

\* Number of DPR submissions in a run.
MaxDPRs == 2

\* Number of requests served in a run.
MaxRequests == 5

EmployerTypes == {"Field", "HQ"}
Roles == {"admin", "employee"}
Periods == {"Annual", "Q1"}

\* performanceScore values drawn by the random calculators, one per request
PerfScores == {80}

\* dprData.progress.length: no text, a short one, a long one
ProgressLengths == {0, 60}

\* ------------------------------------- unnamed/part_000: utils/ai/analyzeKPI

\* JSON.parse of an object text: a repeated key keeps its first place and
\* its last value
RECURSIVE JSONParse(_, _)
JSONParse(text, acc) ==
    IF text = <<>> THEN acc
    ELSE LET e == Head(text)
             j == IF \E i \in DOMAIN acc : acc[i].k = e.k
                  THEN [i \in DOMAIN acc |-> IF acc[i].k = e.k THEN e ELSE acc[i]]
                  ELSE Append(acc, e)
         IN  JSONParse(Tail(text), j)

Max(a, b) == IF a > b THEN a ELSE b

\* the deduplication loop over Object.keys(weights)
RECURSIVE uniqueKPIs(_, _)
uniqueKPIs(weights, acc) ==
    IF weights = <<>> THEN acc
    ELSE LET e == Head(weights)
             j == IF \E i \in DOMAIN acc : acc[i].k = e.k
                  THEN [i \in DOMAIN acc |->
                          IF acc[i].k = e.k
                          THEN [k |-> e.k,
                                fieldWeight |-> Max(acc[i].fieldWeight, e.fieldWeight),
                                hqWeight |-> Max(acc[i].hqWeight, e.hqWeight)]
                          ELSE acc[i]]
                  ELSE Append(acc, e)
         IN  uniqueKPIs(Tail(weights), j)

fieldWeightsMap(weights) == [i \in DOMAIN weights |-> [k |-> weights[i].k, v |-> weights[i].fieldWeight]]
hqWeightsMap(weights) == [i \in DOMAIN weights |-> [k |-> weights[i].k, v |-> weights[i].hqWeight]]

\* the zip keeping only the keys that both normalized channels hold
normalizeDual_OmitFiltered(weights) ==
    LET normalizedField == normalizeWeights(fieldWeightsMap(weights))
        normalizedHQ    == normalizeWeights(hqWeightsMap(weights))
        both == SelectSeq(weights, LAMBDA e : HasKey(normalizedField, e.k)
                                              /\ HasKey(normalizedHQ, e.k))
    IN  [i \in DOMAIN both |->
            [k |-> both[i].k,
             fieldWeight |-> GetOrZero(normalizedField, both[i].k),
             hqWeight |-> GetOrZero(normalizedHQ, both[i].k)]]

\* the field channel normalized over the sum of both weights of a key
normalizeDual_SharedTotal(weights) ==
    LET normalizedField == normalizeWeights(
                               [i \in DOMAIN weights |->
                                   [k |-> weights[i].k,
                                    v |-> weights[i].fieldWeight + weights[i].hqWeight]])
        normalizedHQ    == normalizeWeights(hqWeightsMap(weights))
    IN  [i \in DOMAIN weights |->
            [k |-> weights[i].k,
             fieldWeight |-> GetOrZero(normalizedField, weights[i].k),
             hqWeight |-> GetOrZero(normalizedHQ, weights[i].k)]]

\* both channels normalized on their own and zipped under the input's keys
normalizeDual(weights) ==
    LET normalizedField == normalizeWeights(fieldWeightsMap(weights))
        normalizedHQ    == normalizeWeights(hqWeightsMap(weights))
    IN  [i \in DOMAIN weights |->
            [k |-> weights[i].k,
             fieldWeight |-> GetOrZero(normalizedField, weights[i].k),
             hqWeight |-> GetOrZero(normalizedHQ, weights[i].k)]]

normalizeKPIWeights(weights) == normalizeDual(uniqueKPIs(weights, <<>>))

\* normalizeProjectWeights of utils/ai/recalculateKPI.ts (lines 114-144): the
\* same two-channel normalization; employeeType only picks a total to log
normalizeProjectWeights(weights, employeeType) == normalizeDual(weights)

W(name, f, h) == [k |-> name, fieldWeight |-> f, hqWeight |-> h]

DefaultRaw ==
    << W("Timeliness of DPR Submission", 15, 5),
       W("Survey Accuracy and Completeness", 20, 5),
       W("Quality of DPR Documentation", 15, 10),
       W("Adherence to Project Timelines", 15, 10),
       W("Expenditure Target Achievement", 10, 10),
       W("Technical Compliance", 10, 5),
       W("Site Coordination", 5, 5),
       W("Safety Standards Compliance", 5, 0),
       W("File Disposal Rate", 0, 15),
       W("Responsiveness to Requests", 0, 15),
       W("Digital Adoption Score", 0, 5),
       W("Quality of Drafting", 0, 5),
       W("Turnaround Time for Approvals", 0, 5),
       W("Policy Compliance", 0, 5),
       W("Interdepartmental Coordination", 0, 5) >>

getDefaultKPIWeights == normalizeDual(DefaultRaw)

\* What the generative model may answer: object texts naming KPIs of the
\* employees' templates and of the catalog, one of them with a share under
\* 5%, and the empty object.
AiTextA ==
    << W("Adherence to Project Timelines", 30, 10),
       W("Expenditure Targets", 30, 40),
       W("Financial Targets", 30, 0),
       W("File Disposal Rate", 10, 50) >>

AiTextB ==
    << W("Adherence to Project Timelines", 3, 0),
       W("Site Coordination", 97, 3),
       W("File Disposal Rate", 0, 97) >>

\* a share under 5% for a KPI that both templates of defaults name
AiTextC ==
    << W("Adherence to Project Timelines", 3, 0),
       W("Expenditure Targets", 97, 0),
       W("Turnaround Time", 0, 3),
       W("File Disposal Rate", 0, 97) >>

AiTextEmpty == << >>

\* The outcomes of the call: no credential, a failed call or unparsable
\* text, or a text that parses.  (A text that parses to an object of
\* another shape has kind "shape"; analyzeKPIWithGemini treats it as any
\* text that parses.)
AiOutcomes ==
    { [kind |-> "noKey", text |-> <<>>],
      [kind |-> "error", text |-> <<>>],
      [kind |-> "text", text |-> AiTextA],
      [kind |-> "text", text |-> AiTextB],
      [kind |-> "text", text |-> AiTextC],
      [kind |-> "text", text |-> AiTextEmpty] }

analyzeKPIWithGemini(outcome) ==
    IF outcome.kind = "noKey" THEN getDefaultKPIWeights
    ELSE IF outcome.kind = "error" THEN getDefaultKPIWeights
    ELSE normalizeKPIWeights(JSONParse(outcome.text, <<>>))

\* ------------------------------------------------ api/kpi/defaults/route.ts

T(name, w) == [kpiName |-> name, weightage |-> w, achievedValue |-> 0, period |-> "Annual"]

FIELD_EMPLOYEE_KPIS ==
    << T("Timeliness of DPR Preparation", 1250),
       T("Quality of DPR Preparation", 1250),
       T("Survey Accuracy", 1250),
       T("Adherence to Project Timelines", 1250),
       T("Expenditure Targets", 1250),
       T("Financial Targets", 1250),
       T("Physical Progress of Works", 1250),
       T("Compliance with Technical Standards", 1250) >>

HQ_EMPLOYEE_KPIS ==
    << T("File Disposal Rate", 2000),
       T("Turnaround Time", 2000),
       T("Quality of Drafting", 2000),
       T("Responsiveness", 2000),
       T("Digital Adoption", 2000) >>

\* A Kpi document.  originalWeightage is -1 and projectId is "" while unset;
\* score is kept in units of 1/10000 (weightage in hundredths times the
\* performance score).
KpiDoc(name, w, e, per, isDef, isPS, pid, orig) ==
    [kpiName |-> name, weightage |-> w, assignedTo |-> e, period |-> per,
     isDefault |-> isDef, isProjectSpecific |-> isPS, projectId |-> pid,
     originalWeightage |-> orig, achievedValue |-> 0, progress |-> 0, score |-> 0]

\* Kpi.find({assignedTo: e})
kpisOf(ks, e) == SelectSeq(ks, LAMBDA r : r.assignedTo = e)

NoResponse ==
    [op |-> "none", role |-> "admin", p |-> "", e |-> "", period |-> "",
     status |-> 0, updatedCount |-> 0, deletedOldKPIs |-> 0]

Response(op, role, p, e, per, status, updated, deleted) ==
    [op |-> op, role |-> role, p |-> p, e |-> e, period |-> per,
     status |-> status, updatedCount |-> updated, deletedOldKPIs |-> deleted]

NoPrev == [applied |-> FALSE, p |-> "", period |-> "", updatedCount |-> 0, ps |-> <<>>]

\* the project-specific records of e, as (name, weightage, project)
projectSpecificOf(ks, e) ==
    LET sel == SelectSeq(ks, LAMBDA r : r.assignedTo = e /\ r.isProjectSpecific)
    IN  [i \in DOMAIN sel |-> <<sel[i].kpiName, sel[i].weightage, sel[i].projectId>>]

\* what the request served last left behind, for the next one to compare with
Remember ==
    IF last.op = "apply" /\ last.status = 201
    THEN [applied |-> TRUE, p |-> last.p, period |-> last.period,
          updatedCount |-> last.updatedCount, ps |-> projectSpecificOf(kpis, last.e)]
    ELSE NoPrev

\* a request is served
Serve == served < MaxRequests /\ served' = served + 1

NoProjectDoc == [exists |-> FALSE, hasWeights |-> FALSE, kpiWeights |-> <<>>]

\* the Project document holding a profile: the profile is kept as it was
\* given, the one without a KPI name included
ProjectDoc(kpiWeights) == [exists |-> TRUE, hasWeights |-> TRUE, kpiWeights |-> kpiWeights]

\* The two ApplyProjectWeights requests that may be in flight together.
Requests == {"r1", "r2"}

\* a request not yet received
Idle ==
    [pc |-> "idle", p |-> "", e |-> "", period |-> "", kpiWeights |-> <<>>,
     employerType |-> "", deleted |-> 0, defaultKpis |-> <<>>]

NoneInFlight == [r \in Requests |-> Idle]

\* the role check left out
isAdmin_Anyone(role) == TRUE

\* req.user?.role === "admin"
isAdmin(role) == role = "admin"

Init ==
    /\ raw = <<>> /\ out = <<>> /\ fn = "none"
    /\ projects = [p \in ProjectIds |->
                     IF p = LegacyProject
                     THEN [exists |-> TRUE, hasWeights |-> FALSE, kpiWeights |-> <<>>]
                     ELSE NoProjectDoc]
    /\ users \in {[employerType |-> t, hasAIKPI |-> FALSE] : t \in EmployerTypes}
    /\ kpis = <<>>
    /\ summaries = {}
    /\ dprCount = 0
    /\ last = NoResponse
    /\ prev = NoPrev
    /\ applied = {}
    /\ served = 0
    /\ apars = <<>>
    /\ inflight = NoneInFlight

\* POST /api/projects: the profile is whatever analyzeKPIWithGemini returns
CreateProject(p, outcome) ==
    /\ Serve
    /\ ~projects[p].exists
    /\ projects' = [projects EXCEPT ![p] = ProjectDoc(analyzeKPIWithGemini(outcome))]
    /\ last' = Response("createProject", "admin", p, "", "", 201, 0, 0)
    /\ prev' = Remember
    /\ UNCHANGED <<users, kpis, summaries, dprCount, applied, raw, out, fn, apars, inflight>>

\* POST /api/kpi (create the default KPIs of a user)
CreateDefaults(role, userId, employerType) ==
    LET existingDefaults == SelectSeq(kpis, LAMBDA r : r.assignedTo = userId /\ r.isDefault)
        kpiTemplate == IF employerType = "HQ" THEN HQ_EMPLOYEE_KPIS ELSE FIELD_EMPLOYEE_KPIS
        status == IF role # "admin" THEN 403
                  ELSE IF userId = "" THEN 400
                  ELSE IF userId # Employee THEN 404
                  ELSE IF Len(existingDefaults) > 0 THEN 400
                  ELSE 200
    IN  /\ Serve
        /\ kpis' = IF status = 200
                   THEN kpis \o [i \in DOMAIN kpiTemplate |->
                                   KpiDoc(kpiTemplate[i].kpiName, kpiTemplate[i].weightage,
                                          userId, kpiTemplate[i].period, TRUE, FALSE, "", -1)]
                   ELSE kpis
        /\ last' = Response("createDefaults", role, "", userId, "", status, 0, 0)
        /\ prev' = Remember
        /\ UNCHANGED <<projects, users, summaries, dprCount, applied, raw, out, fn, apars, inflight>>

\* --------------------------------- api/kpi/apply-project-weights/route.ts

\* the delete step left out
deleteProjectSpecific_None(ks, e) == ks

\* Kpi.deleteMany({assignedTo: e, isProjectSpecific: true})
deleteProjectSpecific(ks, e) ==
    SelectSeq(ks, LAMBDA r : ~(r.assignedTo = e /\ r.isProjectSpecific))

\* Kpi.find({assignedTo: e, period, isDefault: true})
findDefaultKpis(ks, e, period) ==
    SelectSeq(ks, LAMBDA r : r.assignedTo = e /\ r.period = period /\ r.isDefault)

\* employee.employerType || "Field"
employerTypeOf(user) == IF user.employerType = "" THEN "Field" ELSE user.employerType

\* weightInfo ? (HQ ? weightInfo.hqWeight : weightInfo.fieldWeight) : 0
targetWeight(projectWeights, employerType, name) ==
    IF \E i \in DOMAIN projectWeights : projectWeights[i].k = name
    THEN LET weightInfo == projectWeights[CHOOSE i \in DOMAIN projectWeights :
                                              projectWeights[i].k = name]
         IN  IF employerType = "HQ" THEN weightInfo.hqWeight ELSE weightInfo.fieldWeight
    ELSE 0

\* the positiveWeights mapping built by the loop over the default KPIs
RECURSIVE positiveWeights(_, _, _, _)
positiveWeights(defaultKpis, projectWeights, employerType, acc) ==
    IF defaultKpis = <<>> THEN acc
    ELSE LET name == Head(defaultKpis).kpiName
             w    == targetWeight(projectWeights, employerType, name)
         IN  positiveWeights(Tail(defaultKpis), projectWeights, employerType,
                             IF w > 0 THEN SetKey(acc, name, w) ELSE acc)

\* the clone's weight with the 5% threshold of the recalculation applied
finalWeight_Threshold(normalizedWeights, projectWeights, employerType, name) ==
    IF targetWeight(projectWeights, employerType, name) > 0
       /\ GetOrZero(normalizedWeights, name) >= 500
    THEN GetOrZero(normalizedWeights, name)
    ELSE 0

\* mappedWeight > 0 ? (normalizedWeights[name] || 0) : 0
finalWeight(normalizedWeights, projectWeights, employerType, name) ==
    IF targetWeight(projectWeights, employerType, name) > 0
    THEN GetOrZero(normalizedWeights, name)
    ELSE 0

\* the clone left without the project's stamp
newKpi_NoStamp(defaultKpi, p, w) ==
    [defaultKpi EXCEPT !.isDefault = FALSE, !.isProjectSpecific = TRUE,
                       !.weightage = w,
                       !.originalWeightage = defaultKpi.weightage,
                       !.progress = 0, !.score = 0, !.achievedValue = 0]

\* the clone that takes the new weight as its original weight
newKpi_OriginalOverwritten(defaultKpi, p, w) ==
    [defaultKpi EXCEPT !.isDefault = FALSE, !.isProjectSpecific = TRUE,
                       !.projectId = p, !.weightage = w,
                       !.originalWeightage = w,
                       !.progress = 0, !.score = 0, !.achievedValue = 0]

\* the clone of a default KPI
newKpi(defaultKpi, p, w) ==
    [defaultKpi EXCEPT !.isDefault = FALSE, !.isProjectSpecific = TRUE,
                       !.projectId = p, !.weightage = w,
                       !.originalWeightage = defaultKpi.weightage,
                       !.progress = 0, !.score = 0, !.achievedValue = 0]

newKpiDocuments(defaultKpis, p, projectWeights, employerType) ==
    LET normalizedWeights ==
            normalizeWeights(positiveWeights(defaultKpis, projectWeights, employerType, <<>>))
    IN  [i \in DOMAIN defaultKpis |->
            newKpi(defaultKpis[i], p,
                   finalWeight(normalizedWeights, projectWeights, employerType,
                               defaultKpis[i].kpiName))]

\* POST /api/kpi/apply-project-weights
ApplyProjectWeights(role, p, e, period) ==
    LET project == IF p \in ProjectIds THEN projects[p] ELSE NoProjectDoc
        checked == IF ~isAdmin(role) THEN 403
                   ELSE IF p = "" \/ e = "" THEN 400
                   ELSE IF ~project.exists THEN 404
                   ELSE IF e # Employee THEN 404
                   ELSE IF ~project.hasWeights THEN 400
                   ELSE 0
        remaining   == deleteProjectSpecific(kpis, e)
        deleted     == Len(kpis) - Len(remaining)
        defaultKpis == findDefaultKpis(remaining, e, period)
        docs        == newKpiDocuments(defaultKpis, p, project.kpiWeights,
                                       employerTypeOf(users))
    IN  /\ Serve
        /\ IF checked # 0
           THEN /\ kpis' = kpis
                /\ last' = Response("apply", role, p, e, period, checked, 0, 0)
                /\ applied' = applied
           ELSE IF Len(defaultKpis) = 0
           THEN /\ kpis' = remaining
                /\ last' = Response("apply", role, p, e, period, 400, 0, 0)
                /\ applied' = applied
           ELSE /\ kpis' = remaining \o docs
                /\ last' = Response("apply", role, p, e, period, 201, Len(docs), deleted)
                /\ applied' = applied \cup {p}
        /\ prev' = Remember
        /\ UNCHANGED <<projects, users, summaries, dprCount, raw, out, fn, apars, inflight>>

\* ------------------------------------------------ utils/ai/recalculateKPI.ts

\* the loop deleting nothing
uniqueExistingKPIs_KeepsAll(ks, e) == [i \in DOMAIN ks |-> [r |-> ks[i], i |-> i]]

\* the loop that keeps the first document of every name and deletes the rest
uniqueExistingKPIs(ks, e) ==
    SelectSeq([i \in DOMAIN ks |-> [r |-> ks[i], i |-> i]],
              LAMBDA x : x.r.assignedTo # e
                         \/ ~\E j \in 1..(x.i - 1) :
                               ks[j].assignedTo = e /\ ks[j].kpiName = x.r.kpiName)

dropIndex(xs) == [i \in DOMAIN xs |-> xs[i].r]

\* employeeType === 'Field' ? weights.fieldWeight : weights.hqWeight
weightToUse(weights, employeeType) ==
    IF employeeType = "Field" THEN weights.fieldWeight ELSE weights.hqWeight

\* the threshold of the skip, 5%, in hundredths
MinWeight == 500

\* one pass of the loop over the normalized profile: skip, create or update
RECURSIVE applyProfile(_, _, _, _, _)
applyProfile(ks, kpiWeights, e, p, employeeType) ==
    IF kpiWeights = <<>> THEN ks
    ELSE LET kpiName == Head(kpiWeights).k
             w       == weightToUse(Head(kpiWeights), employeeType)
             exists  == \E i \in DOMAIN ks : ks[i].assignedTo = e /\ ks[i].kpiName = kpiName
             next    ==
                IF w = 0 \/ w < MinWeight THEN ks
                ELSE IF ~exists
                THEN Append(ks, KpiDoc(kpiName, w, e, "Year", FALSE, TRUE, p, -1))
                ELSE [i \in DOMAIN ks |->
                        IF ks[i].assignedTo = e /\ ks[i].kpiName = kpiName
                        THEN [ks[i] EXCEPT !.originalWeightage = ks[i].weightage,
                                           !.weightage = w,
                                           !.isProjectSpecific = TRUE,
                                           !.projectId = p]
                        ELSE ks[i]]
         IN  applyProfile(next, Tail(kpiWeights), e, p, employeeType)

\* recalculateKPIForEmployee(e, p), as a function of the Kpi collection
recalculateKPIForEmployee(ks, e, p) ==
    LET project == IF p \in ProjectIds THEN projects[p] ELSE NoProjectDoc
    IN  IF ~project.exists \/ ~project.hasWeights THEN ks
        ELSE IF e # Employee THEN ks
        ELSE applyProfile(dropIndex(uniqueExistingKPIs(ks, e)),
                          normalizeProjectWeights(project.kpiWeights,
                                                  employerTypeOf(users)),
                          e, p, employerTypeOf(users))

\* Kpi.findOne({assignedTo: e, kpiName}) then achievedValue += gain, capped
\* at the target (100 for every document the program creates)
bumpAchieved(ks, e, kpiName, gain) ==
    IF \E i \in DOMAIN ks : ks[i].assignedTo = e /\ ks[i].kpiName = kpiName
    THEN LET first == CHOOSE i \in DOMAIN ks :
                         /\ ks[i].assignedTo = e /\ ks[i].kpiName = kpiName
                         /\ \A j \in 1..(i - 1) :
                               ~(ks[j].assignedTo = e /\ ks[j].kpiName = kpiName)
             sum   == ks[first].achievedValue + gain
         IN  [ks EXCEPT ![first].achievedValue = IF sum < 100 THEN sum ELSE 100]
    ELSE ks

\* updateKPIFromDPR(e, p, {progress}); progressLength is dprData.progress.length
updateKPIFromDPR(ks, e, p, progressLength) ==
    LET recalculated == recalculateKPIForEmployee(ks, e, p)
        timeliness   == bumpAchieved(recalculated, e, "Timeliness of DPR Submission", 10)
    IN  IF progressLength > 0
        THEN bumpAchieved(timeliness, e, "Quality of DPR Documentation",
                          IF progressLength > 50 THEN 10 ELSE 5)
        ELSE timeliness

\* POST /api/dpr by the employee: the DPR is stored, then updateKPIFromDPR
SubmitDPR(p, progressLength) ==
    /\ Serve
    /\ dprCount < MaxDPRs
    /\ IF p = ""
       THEN /\ last' = Response("dpr", "employee", p, Employee, "", 400, 0, 0)
            /\ UNCHANGED <<kpis, users, dprCount>>
       ELSE /\ dprCount' = dprCount + 1
            /\ kpis' = updateKPIFromDPR(kpis, Employee, p, progressLength)
            /\ users' = IF p \in ProjectIds /\ projects[p].exists /\ projects[p].hasWeights
                        THEN [users EXCEPT !.hasAIKPI = TRUE]
                        ELSE users
            /\ last' = Response("dpr", "employee", p, Employee, "", 201, 0, 0)
    /\ prev' = Remember
    /\ UNCHANGED <<projects, summaries, applied, raw, out, fn, apars, inflight>>

\* ------------------------------------------------- api/kpi/analyze/route.ts

\* the names that have a calculator, per employer type
fieldKPIMap ==
    {"Timeliness of DPR Submission", "Quality of DPR Documentation",
     "Survey Accuracy and Completeness", "Adherence to Project Timelines",
     "Expenditure Targets", "Financial Targets", "Physical Progress of Works",
     "Compliance with Technical Standards"}

hqKPIMap ==
    {"File Disposal Rate", "Turnaround Time", "Quality of Drafting",
     "Responsiveness", "Digital Adoption"}

\* the documents the deduplication keeps: per name the first one of the
\* largest weightage (as indices into the collection)
deduplicatedKPIs(ks, e) ==
    {i \in DOMAIN ks :
        /\ ks[i].assignedTo = e
        /\ \A j \in DOMAIN ks :
              (ks[j].assignedTo = e /\ ks[j].kpiName = ks[i].kpiName)
                  => \/ ks[j].weightage < ks[i].weightage
                     \/ (ks[j].weightage = ks[i].weightage /\ j >= i)}

\* weightsMap: the names in the order they first occur, each with the
\* weightage of the document kept for it
RECURSIVE analyzeWeightsMap(_, _, _, _)
analyzeWeightsMap(ks, e, i, acc) ==
    IF i > Len(ks) THEN acc
    ELSE IF ks[i].assignedTo = e /\ ~HasKey(acc, ks[i].kpiName)
    THEN LET kept == CHOOSE j \in deduplicatedKPIs(ks, e) : ks[j].kpiName = ks[i].kpiName
         IN  analyzeWeightsMap(ks, e, i + 1,
                               Append(acc, [k |-> ks[i].kpiName, v |-> ks[kept].weightage]))
    ELSE analyzeWeightsMap(ks, e, i + 1, acc)

\* analyzeOne(e): the kept documents get their normalized weightage, their
\* progress and their score; perf is the calculators' performanceScore
analyzeOne(ks, e, isHQ, perf, down) ==
    LET kept == deduplicatedKPIs(ks, e)
        normalizedWeightsMap == normalizeWeightsTies(analyzeWeightsMap(ks, e, 1, <<>>), down)
        kpiMap == IF isHQ THEN hqKPIMap ELSE fieldKPIMap
    IN  [i \in DOMAIN ks |->
            IF i \in kept
            THEN LET w == GetOrZero(normalizedWeightsMap, ks[i].kpiName)
                     performanceScore == IF ks[i].kpiName \in kpiMap THEN perf ELSE 0
                 IN  [ks[i] EXCEPT !.weightage = w,
                                   !.progress = IF performanceScore < 100
                                                THEN performanceScore ELSE 100,
                                   !.score = w * performanceScore]
            ELSE ks[i]]

\* POST /api/kpi/analyze
AnalyzeKPIs(role, employeeId, all, perf) ==
    LET target == IF all THEN Employee ELSE employeeId
        status == IF ~isAdmin(role) THEN 403
                  ELSE IF ~all /\ employeeId = "" THEN 400
                  ELSE IF target # Employee THEN 400
                  ELSE 200
        hasData == Len(kpisOf(kpis, target)) > 0
    IN  /\ Serve
        /\ IF status = 200 /\ hasData
           THEN /\ \E down \in SUBSET tieValues(analyzeWeightsMap(kpis, target, 1, <<>>)) :
                     kpis' = analyzeOne(kpis, target, users.employerType = "HQ", perf, down)
                /\ summaries' = summaries \cup {kpisOf(kpis, target)[1].period}
                /\ users' = [users EXCEPT !.hasAIKPI = TRUE]
           ELSE UNCHANGED <<kpis, summaries, users>>
        /\ last' = Response("analyze", role, "", employeeId, "", status, 0, 0)
        /\ prev' = Remember
        /\ UNCHANGED <<projects, dprCount, applied, raw, out, fn, apars, inflight>>

\* ------------------------------------------------------ the specification

vars == <<raw, out, fn, projects, users, kpis, summaries, dprCount, last, prev, applied, served,
          apars, inflight>>

\* The requests served.  A request refused for the caller's role is refused
\* before its body is read, so one body stands for all of them; the ids that
\* match no document and the missing ids are tried with otherwise valid
\* fields.
ApplyRequests ==
    {<<"admin", p, Employee, period>> : p \in ProjectIds, period \in Periods}
        \cup {<<"employee", "p1", Employee, "Annual">>,
              <<"admin", "", Employee, "Annual">>,
              <<"admin", NoSuchProject, Employee, "Annual">>,
              <<"admin", "p1", NoSuchUser, "Annual">>}

DefaultsRequests ==
    {<<"admin", Employee, t>> : t \in EmployerTypes}
        \cup {<<"employee", Employee, "Field">>,
              <<"admin", "", "Field">>,
              <<"admin", NoSuchUser, "Field">>}

AnalyzeRequests ==
    {<<"admin", Employee, all>> : all \in BOOLEAN}
        \cup {<<"employee", Employee, FALSE>>,
              <<"admin", "", FALSE>>,
              <<"admin", NoSuchUser, FALSE>>}

Next ==
    \/ \E p \in CreatedProjects, outcome \in AiOutcomes : CreateProject(p, outcome)
    \/ \E r \in DefaultsRequests : CreateDefaults(r[1], r[2], r[3])
    \/ \E r \in ApplyRequests : ApplyProjectWeights(r[1], r[2], r[3], r[4])
    \/ \E p \in ProjectIds \cup {NoSuchProject, ""}, len \in ProgressLengths :
          SubmitDPR(p, len)
    \/ \E r \in AnalyzeRequests, perf \in PerfScores : AnalyzeKPIs(r[1], r[2], r[3], perf)

Spec == Init /\ [][Next]_vars

\* ------------- api/kpi/apply-project-weights/route.ts, one await at a time

\* The handler awaits four times: the two findById of line 24, the deleteMany
\* of line 35, the find of line 43 and the insertMany of line 104.  Between
\* two awaits it runs alone; at an await any other request may run.  Each
\* step below is the code from one await to the next, and inflight[r] holds
\* the local variables the handler keeps across them.

\* insertMany that replaces the documents of the same owner, name and kind
insertMany_Upsert(ks, docs) ==
    SelectSeq(ks, LAMBDA r : ~\E i \in DOMAIN docs :
                                 /\ docs[i].assignedTo = r.assignedTo
                                 /\ docs[i].kpiName = r.kpiName
                                 /\ docs[i].isProjectSpecific = r.isProjectSpecific)
        \o docs

\* Kpi.insertMany(docs)
insertMany(ks, docs) == ks \o docs

Answered(r) == [inflight EXCEPT ![r].pc = "done"]

\* lines 12-31: the checks and the two lookups
BeginApply(r, role, p, e, period) ==
    LET project == IF p \in ProjectIds THEN projects[p] ELSE NoProjectDoc
        checked == IF ~isAdmin(role) THEN 403
                   ELSE IF p = "" \/ e = "" THEN 400
                   ELSE IF ~project.exists THEN 404
                   ELSE IF e # Employee THEN 404
                   ELSE IF ~project.hasWeights THEN 400
                   ELSE 0
    IN  /\ Serve
        /\ inflight[r].pc = "idle"
        /\ IF checked # 0
           THEN /\ inflight' = Answered(r)
                /\ last' = Response("apply", role, p, e, period, checked, 0, 0)
                /\ prev' = Remember
           ELSE /\ inflight' = [inflight EXCEPT ![r] =
                                   [Idle EXCEPT !.pc = "checked", !.p = p, !.e = e,
                                                !.period = period,
                                                !.kpiWeights = project.kpiWeights,
                                                !.employerType = employerTypeOf(users)]]
                /\ UNCHANGED <<last, prev>>
        /\ UNCHANGED <<projects, users, kpis, summaries, dprCount, applied,
                       raw, out, fn, apars>>

\* line 35: Kpi.deleteMany
DeleteStep(r) ==
    LET remaining == deleteProjectSpecific(kpis, inflight[r].e)
    IN  /\ inflight[r].pc = "checked"
        /\ kpis' = remaining
        /\ inflight' = [inflight EXCEPT ![r].pc = "deleted",
                                        ![r].deleted = Len(kpis) - Len(remaining)]
        /\ UNCHANGED <<projects, users, summaries, dprCount, last, prev, applied,
                       served, raw, out, fn, apars>>

\* lines 43-51: Kpi.find of the default KPIs
FindStep(r) ==
    LET req         == inflight[r]
        defaultKpis == findDefaultKpis(kpis, req.e, req.period)
    IN  /\ req.pc = "deleted"
        /\ IF Len(defaultKpis) = 0
           THEN /\ inflight' = Answered(r)
                /\ last' = Response("apply", "admin", req.p, req.e, req.period, 400, 0, 0)
                /\ prev' = Remember
           ELSE /\ inflight' = [inflight EXCEPT ![r].pc = "found",
                                                ![r].defaultKpis = defaultKpis]
                /\ UNCHANGED <<last, prev>>
        /\ UNCHANGED <<projects, users, kpis, summaries, dprCount, applied,
                       served, raw, out, fn, apars>>

\* lines 53-122: the clones are built and inserted, the request is answered
InsertStep(r) ==
    LET req  == inflight[r]
        docs == newKpiDocuments(req.defaultKpis, req.p, req.kpiWeights, req.employerType)
    IN  /\ req.pc = "found"
        /\ kpis' = insertMany(kpis, docs)
        /\ inflight' = Answered(r)
        /\ last' = Response("apply", "admin", req.p, req.e, req.period, 201,
                            Len(docs), req.deleted)
        /\ prev' = Remember
        /\ applied' = applied \cup {req.p}
        /\ UNCHANGED <<projects, users, summaries, dprCount, served,
                       raw, out, fn, apars>>

NextRace ==
    \/ \E p \in CreatedProjects, outcome \in AiOutcomes : CreateProject(p, outcome)
    \/ \E r \in DefaultsRequests : CreateDefaults(r[1], r[2], r[3])
    \/ \E r \in Requests, a \in ApplyRequests : BeginApply(r, a[1], a[2], a[3], a[4])
    \/ \E r \in Requests : DeleteStep(r)
    \/ \E r \in Requests : FindStep(r)
    \/ \E r \in Requests : InsertStep(r)

SpecRace == Init /\ [][NextRace]_vars

\* ------------------------------------------------ api/apar/[id]/route.ts

\* The requests on one APAR.  A field of the body is <<>> when the body does
\* not have it and <<v>> when it has the value v.  Scores are whole numbers;
\* the final score, a quotient, is kept as a fraction in lowest terms.

MaxPatches == 1

AparUsers == {[userId |-> "e1", role |-> "employee"],
              [userId |-> "e2", role |-> "employee"],
              [userId |-> "a0", role |-> "admin"]}

AparStatuses == {"draft", "submitted", "reviewed", "finalized"}

AparIds == {"a1", "a2"}
NoSuchApar == "a9"

PatchBodies ==
    [selfAppraisal    : {<<>>, <<"rewritten">>},
     reviewer         : {<<>>, <<"a0">>},
     reviewerComments : {<<>>, <<"good">>},
     reviewerScore    : {<<>>, <<40>>},
     status           : {<<>>} \cup {<<st>> : st \in AparStatuses \ {"draft"}}]

RECURSIVE Gcd(_, _)
Gcd(a, b) == IF b = 0 THEN a ELSE Gcd(b, a % b)

Fraction(num, den) ==
    LET g == Gcd(num, den) IN IF g = 0 THEN [num |-> 0, den |-> 1]
                              ELSE [num |-> num \div g, den |-> den \div g]

AparDoc(id, employee, userId, status, reviewerScore) ==
    [id |-> id, employee |-> employee, userId |-> userId, status |-> status,
     selfAppraisal |-> "written", reviewer |-> "", reviewerComments |-> "",
     reviewerScore |-> reviewerScore, finalScore |-> Fraction(reviewerScore, 1)]

\* a KPI as the handler reads it: owner, status, score and weightage
ScoredKpi(e, status, score, weightage) ==
    [assignedTo |-> e, status |-> status, score |-> score, weightage |-> weightage]

\* The APARs of the store: the first is e1's, the second is e1's too (by
\* employee alone or by userId as well) or e2's; each in any status, with
\* the reviewer's score stored so far.  The employee's KPIs: none, a
\* completed one next to a pending one, or a completed one of weight 0.
InitApar ==
    /\ raw = <<>> /\ out = <<>> /\ fn = "none"
    /\ projects = [p \in ProjectIds |-> NoProjectDoc]
    /\ users = [employerType |-> "Field", hasAIKPI |-> FALSE]
    /\ kpis \in {<<>>,
                 <<ScoredKpi("e1", "completed", 30, 60), ScoredKpi("e1", "Pending", 10, 40)>>,
                 <<ScoredKpi("e1", "Completed", 30, 0)>>}
    /\ summaries = {}
    /\ dprCount = 0
    /\ last = NoResponse
    /\ prev = NoPrev
    /\ applied = {}
    /\ served = 0
    /\ \E s1 \in AparStatuses, s2 \in AparStatuses, score \in {20, 80},
          second \in {<<"e1", "">>, <<"e1", "e1">>, <<"e2", "">>} :
          apars = << AparDoc("a1", "e1", "", s1, score),
                     AparDoc("a2", second[1], second[2], s2, 20) >>
    /\ inflight = NoneInFlight

Clamp30(x) == IF x < 0 THEN 0 ELSE IF x > 30 THEN 30 ELSE x

RECURSIVE SumField(_, _)
SumField(ks, f) == IF ks = <<>> THEN 0 ELSE Head(ks)[f] + SumField(Tail(ks), f)

\* lines 158-177: 70 points from the completed KPIs plus at most 30 from the
\* reviewer
finalScoreOf(existing, reviewerScore, ks) ==
    LET completed == SelectSeq(ks, LAMBDA k : k.assignedTo = existing.employee
                                              /\ k.status \in {"completed", "Completed"})
        final == Clamp30(IF reviewerScore # <<>> THEN reviewerScore[1]
                         ELSE existing.reviewerScore)
        totalWeighted == SumField(completed, "score")
        totalWt       == SumField(completed, "weightage")
    IN  IF Len(completed) > 0
        THEN IF totalWt > 0
             THEN Fraction(totalWeighted * 70 + final * totalWt, totalWt)
             ELSE Fraction(final, 1)
        ELSE Fraction(final, 1)

Truthy(opt) == opt # <<>> /\ opt[1] # ""

SetIf(doc, cond, field, opt) == IF cond THEN [doc EXCEPT ![field] = opt[1]] ELSE doc

\* lines 61-154: the fields the caller may set, or the refusal
permitted(existing, user, body) ==
    LET isAdm   == user.role = "admin"
        isOwner == existing.employee = user.userId \/ existing.userId = user.userId
        self    == SetIf(existing, Truthy(body.selfAppraisal), "selfAppraisal", body.selfAppraisal)
        review(doc) ==
            SetIf(SetIf(SetIf(SetIf(doc, Truthy(body.reviewer), "reviewer", body.reviewer),
                              body.reviewerComments # <<>>, "reviewerComments",
                              body.reviewerComments),
                        body.reviewerScore # <<>>, "reviewerScore", body.reviewerScore),
                  Truthy(body.status), "status", body.status)
    IN  IF existing.status = "draft"
        THEN IF ~isOwner /\ ~isAdm THEN [status |-> 403, doc |-> existing]
             ELSE IF isOwner /\ ~isAdm
             THEN [status |-> 200,
                   doc |-> SetIf(self, body.status = <<"submitted">>, "status", body.status)]
             ELSE [status |-> 200, doc |-> review(self)]
        ELSE IF existing.status = "submitted"
        THEN IF ~isAdm THEN [status |-> 403, doc |-> existing]
             ELSE [status |-> 200, doc |-> review(existing)]
        ELSE IF ~isAdm THEN [status |-> 403, doc |-> existing]
             ELSE [status |-> 200, doc |-> review(self)]

PatchResponse(id, user, status) ==
    [op |-> "patch", id |-> id, userId |-> user.userId, role |-> user.role,
     status |-> status]

\* PATCH and PUT /api/apar/[id]
Patch(id, user, body) ==
    LET found    == {i \in DOMAIN apars : apars[i].id = id}
        existing == apars[CHOOSE i \in found : TRUE]
        allowed  == permitted(existing, user, body)
        scoring  == body.status \in {<<"finalized">>, <<"reviewed">>}
        updated  == IF scoring
                    THEN [allowed.doc EXCEPT
                            !.finalScore = finalScoreOf(existing, body.reviewerScore, kpis)]
                    ELSE allowed.doc
        others   == IF body.status = <<"finalized">>
                    THEN SelectSeq(apars, LAMBDA a :
                                      a.id = id \/ ~(a.employee = existing.employee
                                                     \/ a.userId = existing.employee))
                    ELSE apars
    IN  /\ served < MaxPatches
        /\ served' = served + 1
        /\ IF found = {}
           THEN /\ apars' = apars
                /\ last' = PatchResponse(id, user, 404)
           ELSE IF allowed.status # 200
           THEN /\ apars' = apars
                /\ last' = PatchResponse(id, user, allowed.status)
           ELSE /\ apars' = [i \in DOMAIN others |->
                                IF others[i].id = id THEN updated ELSE others[i]]
                /\ last' = PatchResponse(id, user, 200)
        /\ UNCHANGED <<projects, users, kpis, summaries, dprCount, prev, applied,
                       raw, out, fn, inflight>>

NextApar ==
    \E id \in AparIds \cup {NoSuchApar}, user \in AparUsers, body \in PatchBodies :
        Patch(id, user, body)

SpecApar == InitApar /\ [][NextApar]_vars

\* ------------------------------------------------ the normalizers alone

RawInputs ==
    UNION {[1..n -> WeightValues] : n \in 0..MaxKeys}

AsMapping(vals) == [i \in DOMAIN vals |-> [k |-> KeyNames[i], v |-> vals[i]]]

InitNorm ==
    /\ raw \in {AsMapping(vals) : vals \in RawInputs}
    /\ out = <<>>
    /\ fn = "none"
    /\ projects = [p \in ProjectIds |-> NoProjectDoc]
    /\ users = [employerType |-> "Field", hasAIKPI |-> FALSE]
    /\ kpis = <<>>
    /\ summaries = {}
    /\ dprCount = 0
    /\ last = NoResponse
    /\ prev = NoPrev
    /\ applied = {}
    /\ served = 0
    /\ apars = <<>>
    /\ inflight = NoneInFlight

\* normalizeWeights(raw) of utils/normalizeWeights.ts
NormalizePlain ==
    /\ fn = "none"
    /\ out' = normalizeWeights(raw)
    /\ fn' = "plain"
    /\ UNCHANGED raw
    /\ UNCHANGED appVars

\* normalizeWeights(raw) of utils/ai/recalculateKPI.ts
NormalizeKPI ==
    /\ fn = "none"
    /\ out' = normalizeWeightsKPI(raw)
    /\ fn' = "kpi"
    /\ UNCHANGED raw
    /\ UNCHANGED appVars

\* normalizeWeights applied to its own result: raw becomes the result of
\* the first call, out the result of the second
NormalizeAgain ==
    /\ fn = "plain"
    /\ raw' = out
    /\ out' = normalizeWeights(out)
    /\ fn' = "again"
    /\ UNCHANGED appVars

NextNorm == NormalizePlain \/ NormalizeKPI \/ NormalizeAgain

SpecNorm == InitNorm /\ [][NextNorm]_vars

\* ------------------------------------------- the weight source's answers

\* Longest answer of the weight source, in entries.
MaxEntries == 3

\* KPI names and (fieldWeight, hqWeight) pairs of the answers
DualNames == {"A", "B"}
DualPairs == {<<10, 5>>, <<20, 2>>, <<30, 10>>, <<30, 40>>, <<40, 5>>,
              <<0, 0>>, <<0, 7>>, <<3, 0>>}

DualEntries == {W(n, pr[1], pr[2]) : n \in DualNames, pr \in DualPairs}

\* the object texts: entries in the order written, names possibly repeated
DualTexts == UNION {[1..n -> DualEntries] : n \in 0..MaxEntries}

\* the text names no key twice (it is what an object holds)
DistinctKeys(text) ==
    \A i, j \in DOMAIN text : text[i].k = text[j].k => i = j

\* an object with the keys of text whose values are not weight pairs: the
\* filter of normalizeWeights drops a fieldWeight or hqWeight that is not a
\* number as it drops 0, so the entries are written with 0
NoWeights(text) == [i \in DOMAIN text |-> W(text[i].k, 0, 0)]

InitDual ==
    /\ raw \in DualTexts
    /\ out = <<>>
    /\ fn = "none"
    /\ projects = [p \in ProjectIds |-> NoProjectDoc]
    /\ users = [employerType |-> "Field", hasAIKPI |-> FALSE]
    /\ kpis = <<>>
    /\ summaries = {}
    /\ dprCount = 0
    /\ last = NoResponse
    /\ prev = NoPrev
    /\ applied = {}
    /\ served = 0
    /\ apars = <<>>
    /\ inflight = NoneInFlight

\* analyzeKPIWithGemini when the call is not made or fails, or its text
\* does not parse
GeminiFails(kind) ==
    /\ fn = "none"
    /\ out' = analyzeKPIWithGemini([kind |-> kind, text |-> <<>>])
    /\ fn' = kind
    /\ UNCHANGED raw
    /\ UNCHANGED appVars

\* analyzeKPIWithGemini when the model answers the text raw
GeminiText ==
    /\ fn = "none"
    /\ out' = analyzeKPIWithGemini([kind |-> "text", text |-> raw])
    /\ fn' = "text"
    /\ UNCHANGED raw
    /\ UNCHANGED appVars

\* analyzeKPIWithGemini when the model answers an object of another shape
\* (raw becomes that object)
GeminiShape ==
    /\ fn = "none"
    /\ raw # <<>>
    /\ raw' = NoWeights(raw)
    /\ out' = analyzeKPIWithGemini([kind |-> "shape", text |-> NoWeights(raw)])
    /\ fn' = "shape"
    /\ UNCHANGED appVars

\* JSON.parse and the deduplication loop of normalizeKPIWeights (lines
\* 43-51), before the channels are normalized
ParseAndDedupe ==
    /\ fn = "none"
    /\ out' = uniqueKPIs(JSONParse(raw, <<>>), <<>>)
    /\ fn' = "deduped"
    /\ UNCHANGED raw
    /\ UNCHANGED appVars

\* normalizeProjectWeights(raw, employeeType) on a stored profile
NormalizeProject(employeeType) ==
    /\ fn = "none"
    /\ DistinctKeys(raw)
    /\ out' = normalizeProjectWeights(raw, employeeType)
    /\ fn' = "project"
    /\ UNCHANGED raw
    /\ UNCHANGED appVars

\* the weights a channel of a profile may hold
ChannelValues == {pr[1] : pr \in DualPairs} \cup {pr[2] : pr \in DualPairs}

\* the profile with the weights of one channel replaced by ws
WithChannel(weights, channel, ws) ==
    [i \in DOMAIN weights |->
        IF channel = "hq"
        THEN W(weights[i].k, weights[i].fieldWeight, ws[i])
        ELSE W(weights[i].k, ws[i], weights[i].hqWeight)]

\* normalizeProjectWeights on the profile just normalized with the weights
\* of one channel changed and the other channel left as it was
NormalizeChanged(channel) ==
    /\ fn = "project"
    /\ \E ws \in [DOMAIN raw -> ChannelValues] :
          /\ WithChannel(raw, channel, ws) # raw
          /\ raw' = WithChannel(raw, channel, ws)
          /\ out' = normalizeProjectWeights(WithChannel(raw, channel, ws),
                                            employerTypeOf(users))
    /\ fn' = IF channel = "hq" THEN "hqChanged" ELSE "fieldChanged"
    /\ UNCHANGED appVars

NextDual ==
    \/ \E kind \in {"noKey", "error"} : GeminiFails(kind)
    \/ GeminiText
    \/ GeminiShape
    \/ ParseAndDedupe
    \/ \E t \in EmployerTypes : NormalizeProject(t)
    \/ \E channel \in {"field", "hq"} : NormalizeChanged(channel)

SpecDual == InitDual /\ [][NextDual]_vars

\* ------------------------- utils/ai/recalculateKPI.ts: deduplicateKPIs

\* Longest list handed to deduplicateKPIs.
MaxList == 3

\* an element of the list; a field that is absent is "" or 0 (both falsy)
E(kpiName, name, weight, weightage) ==
    [kpiName |-> kpiName, name |-> name, weight |-> weight, weightage |-> weightage]

\* elements named by kpiName or by name, weighted by weight or by weightage,
\* one without a name, one without a weight, one with a negative weight
KpiEntries ==
    {E("A", "", 5, 0), E("A", "", 0, 5), E("A", "", 7, 0), E("", "A", 0, 7),
     E("B", "", 0, 3), E("B", "", 0, 0), E("A", "B", -2, 9), E("", "", 9, 0)}

KpiLists == UNION {[1..n -> KpiEntries] : n \in 0..MaxList}

\* kpi.kpiName || kpi.name || ''
nameOf(kpi) == IF kpi.kpiName # "" THEN kpi.kpiName ELSE kpi.name

\* kpi.weight || kpi.weightage || 0
weightOf(kpi) == IF kpi.weight # 0 THEN kpi.weight ELSE kpi.weightage

\* the comparison letting an equal weight replace the entry kept
heavier_OrEqual(weight, existingWeight) == weight >= existingWeight

\* weight > existingWeight
heavier(weight, existingWeight) == weight > existingWeight

\* the loop over kpiList; uniqueMap is the Map as the sequence of its values
\* in insertion order (set() on a key it holds keeps the key's place)
RECURSIVE uniqueMapOf(_, _)
uniqueMapOf(kpiList, uniqueMap) ==
    IF kpiList = <<>> THEN uniqueMap
    ELSE LET kpi  == Head(kpiList)
             name == nameOf(kpi)
             next ==
                IF name = "" THEN uniqueMap
                ELSE IF ~\E i \in DOMAIN uniqueMap : nameOf(uniqueMap[i]) = name
                THEN Append(uniqueMap, kpi)
                ELSE [i \in DOMAIN uniqueMap |->
                        IF nameOf(uniqueMap[i]) = name
                           /\ heavier(weightOf(kpi), weightOf(uniqueMap[i]))
                        THEN kpi ELSE uniqueMap[i]]
         IN  uniqueMapOf(Tail(kpiList), next)

\* Array.from(uniqueMap.values())
deduplicateKPIs(kpiList) == uniqueMapOf(kpiList, <<>>)

InitDedup ==
    /\ raw \in KpiLists
    /\ out = <<>>
    /\ fn = "none"
    /\ projects = [p \in ProjectIds |-> NoProjectDoc]
    /\ users = [employerType |-> "Field", hasAIKPI |-> FALSE]
    /\ kpis = <<>>
    /\ summaries = {}
    /\ dprCount = 0
    /\ last = NoResponse
    /\ prev = NoPrev
    /\ applied = {}
    /\ served = 0
    /\ apars = <<>>
    /\ inflight = NoneInFlight

\* deduplicateKPIs(raw)
Deduplicate ==
    /\ fn = "none"
    /\ out' = deduplicateKPIs(raw)
    /\ fn' = "dedup"
    /\ UNCHANGED raw
    /\ UNCHANGED appVars

NextDedup == Deduplicate

SpecDedup == InitDedup /\ [][NextDedup]_vars

\* --------------------- utils/ai/recalculateKPI.ts: calculateFinalScore

\* Most entries of a kpiScores object.
MaxScores == 3

ScoreNames == {"A", "B", "C"}

\* per-KPI scores, 0 to 100
ScoreValues == {0, 50, 100}

\* weights in percent: none, two shares, and a negative one
ScoreWeights == {0, 25, 75, -25}

\* the kpiScores objects: up to MaxScores names, in any order
ScoreObjects ==
    {m \in UNION {[1..n -> [k : ScoreNames, v : ScoreValues]] : n \in 0..MaxScores} :
        \A i, j \in DOMAIN m : m[i].k = m[j].k => i = j}

\* the weights objects: every subset of the names, each with a weight
WeightObjects ==
    LET order == <<"A", "B", "C">>
    IN  UNION {{[i \in DOMAIN SelectSeq(order, LAMBDA n : n \in S) |->
                    [k |-> SelectSeq(order, LAMBDA n : n \in S)[i], v |-> f[i]]] :
                f \in [1..Cardinality(S) -> ScoreWeights]} : S \in SUBSET ScoreNames}

\* the loop over Object.entries(kpiScores).  totalScore is kept 100 times
\* as large as in the code (the division by 100 of every term is left to
\* the end), so that it stays a whole number
RECURSIVE scoreTotals(_, _, _, _)
scoreTotals(kpiScores, weights, totalScore, totalWeight) ==
    IF kpiScores = <<>> THEN <<totalScore, totalWeight>>
    ELSE LET weight == GetOrZero(weights, Head(kpiScores).k)
         IN  scoreTotals(Tail(kpiScores), weights,
                         totalScore + Head(kpiScores).v * weight,
                         totalWeight + weight)

\* the total returned without the division by the total weight
calculateFinalScore_NotNormalized(kpiScores, weights) ==
    [num |-> scoreTotals(kpiScores, weights, 0, 0)[1], den |-> 100]

\* totalWeight > 0 ? (totalScore / totalWeight) * 100 : 0, as the fraction
\* num / den of whole numbers
calculateFinalScore(kpiScores, weights) ==
    LET totals == scoreTotals(kpiScores, weights, 0, 0)
    IN  IF totals[2] > 0
        THEN [num |-> totals[1], den |-> totals[2]]
        ELSE [num |-> 0, den |-> 1]

\* raw holds the two arguments, out the score returned
InitScore ==
    /\ raw \in [kpiScores : ScoreObjects, weights : WeightObjects]
    /\ out = <<>>
    /\ fn = "none"
    /\ projects = [p \in ProjectIds |-> NoProjectDoc]
    /\ users = [employerType |-> "Field", hasAIKPI |-> FALSE]
    /\ kpis = <<>>
    /\ summaries = {}
    /\ dprCount = 0
    /\ last = NoResponse
    /\ prev = NoPrev
    /\ applied = {}
    /\ served = 0
    /\ apars = <<>>
    /\ inflight = NoneInFlight

CalculateFinalScore ==
    /\ fn = "none"
    /\ out' = calculateFinalScore(raw.kpiScores, raw.weights)
    /\ fn' = "score"
    /\ UNCHANGED raw
    /\ UNCHANGED appVars

NextScore == CalculateFinalScore

SpecScore == InitScore /\ [][NextScore]_vars

\* ------------------------------------------------ claims on the normalizers

NonEmpty(m) == Len(m) > 0
AllPositive(m) == \A i \in DOMAIN m : m[i].v > 0
AllNonPositive(m) == \A i \in DOMAIN m : m[i].v <= 0
PositiveEntries(m) == SelectSeq(m, LAMBDA e : e.v > 0)
EqualOverKeys(m) ==
    [i \in DOMAIN m |-> [k |-> m[i].k, v |-> (2 * 10000 + Len(m)) \div (2 * Len(m))]]

\* C1: for every non-empty input of positive numbers, the values returned by
\* normalizeWeights (utils/normalizeWeights.ts) sum to 100.00 within 0.01.
C1_SumInvariant ==
    (fn = "plain" /\ NonEmpty(raw) /\ AllPositive(raw))
        => Abs(SumValues(out) - 10000) <= 1

\* the rounded shares of the input did not sum to 100.00 and the result does
C1_Witness ==
    /\ fn = "plain" /\ Len(raw) >= 3 /\ AllPositive(raw)
    /\ SumValues(proportional(raw)) # 10000
    /\ SumValues(out) = 10000

\* C2: every value returned by normalizeWeights lies in [0, 100], for every
\* input, the drift correction on the last key included.
C2_ValuesInRange ==
    fn = "plain" => \A i \in DOMAIN out : out[i].v >= 0 /\ out[i].v <= 10000

\* C9: normalizeWeights drops every entry whose value is 0 or negative: such
\* keys are not in the output, the output is the result of normalizing the
\* positive entries alone, and normalize({a: 0, b: 0, c: 5}) = {c: 100}.
C9_ZeroFilter ==
    fn = "plain" =>
        /\ \A i \in DOMAIN raw : raw[i].v <= 0 => ~HasKey(out, raw[i].k)
        /\ \A i \in DOMAIN out :
              \E j \in DOMAIN raw : raw[j].k = out[i].k /\ raw[j].v > 0
        /\ out = normalizeWeights(PositiveEntries(raw))
        /\ (raw = <<[k |-> "a", v |-> 0], [k |-> "b", v |-> 0], [k |-> "c", v |-> 5]>>
              => out = <<[k |-> "c", v |-> 10000]>>)

C9_Witness ==
    /\ fn = "plain"
    /\ raw = <<[k |-> "a", v |-> 0], [k |-> "b", v |-> 0], [k |-> "c", v |-> 5]>>
    /\ out = <<[k |-> "c", v |-> 10000]>>

\* C10 as stated: when every value of a non-empty input is non-positive, the
\* result is the equal share 100/n over the original keys.
C10_EqualSplitOriginal ==
    (fn \in {"plain", "kpi"} /\ NonEmpty(raw) /\ AllNonPositive(raw))
        => out = EqualOverKeys(raw)

\* C10 amended: when every value of a non-empty input is non-positive,
\* normalizeWeights (utils/normalizeWeights.ts) returns the empty mapping;
\* the KPI-specific variant gives each of the n original keys 100/n rounded
\* to 2 decimals only when the values sum to exactly 0, and the proportional
\* shares otherwise ({a: -1, b: -5} becomes {a: 16.67, b: 83.33}).
C10_NonPositiveInput ==
    (NonEmpty(raw) /\ AllNonPositive(raw)) =>
        /\ fn = "plain" => out = <<>>
        /\ (fn = "kpi" /\ SumValues(raw) = 0) => out = EqualOverKeys(raw)
        /\ (fn = "kpi" /\ raw = <<[k |-> "a", v |-> -1], [k |-> "b", v |-> -5]>>)
              => out = <<[k |-> "a", v |-> 1667], [k |-> "b", v |-> 8333]>>

C10_Witness ==
    /\ fn = "plain"
    /\ raw = <<[k |-> "a", v |-> -1], [k |-> "b", v |-> -5]>>
    /\ out = <<>>

\* C11: normalizeWeights returns the empty mapping exactly when the input has
\* no entry with a positive value (the empty input and the inputs whose
\* entries are all filtered out), and a non-empty mapping otherwise; being
\* defined on every input, it never raises.
C11_EmptyExactly ==
    fn = "plain" => ((out = <<>>) <=> (PositiveEntries(raw) = <<>>))

\* a zero and a negative entry, both filtered out
C11_Witness ==
    /\ fn = "plain" /\ out = <<>>
    /\ \E i \in DOMAIN raw : raw[i].v = 0
    /\ \E i \in DOMAIN raw : raw[i].v < 0

RoundedShares(m) ==
    [i \in DOMAIN m |-> ToFixed2Percent(m[i].v, SumValues(m))]

\* 100 - (sum of the rounded shares)
Drift(m) == 10000 - SumSeq(RoundedShares(m))

\* C24: for every non-empty mapping of positive weights, the KPI-specific
\* normalizer variant returns values that sum to exactly 100.00.
C24_KPISumExact ==
    (fn = "kpi" /\ NonEmpty(raw) /\ AllPositive(raw)) => SumValues(out) = 10000

\* out is the rounded shares of in with the drift added at index j alone
CorrectedAt(in, res, j) ==
    /\ Len(res) = Len(in)
    /\ \A i \in DOMAIN in :
          /\ res[i].k = in[i].k
          /\ res[i].v = RoundedShares(in)[i] + (IF i = j THEN Drift(in) ELSE 0)

\* index j holds the largest rounded share of m
Largest(m, j) == \A i \in DOMAIN m : RoundedShares(m)[i] <= RoundedShares(m)[j]

C26_OnlyLastKeyDiffers ==
    (fn = "plain" /\ NonEmpty(PositiveEntries(raw))) =>
        CorrectedAt(PositiveEntries(raw), out, Len(PositiveEntries(raw)))

\* several keys, a drift that is not 0, and the last key off its rounded
\* share by it
C26_Witness ==
    /\ fn = "plain" /\ Len(PositiveEntries(raw)) > 2
    /\ Len(PositiveEntries(raw)) < Len(raw)
    /\ Drift(PositiveEntries(raw)) # 0
    /\ out[Len(out)].v # RoundedShares(PositiveEntries(raw))[Len(out)]
    /\ out[1].v = RoundedShares(PositiveEntries(raw))[1]

\* ------------------------------------------ claims on the weight profiles

\* what the dual normalizer was handed
DualInput ==
    IF fn \in {"noKey", "error"} THEN DefaultRaw
    ELSE IF fn \in {"project", "hqChanged", "fieldChanged"} THEN raw
    ELSE JSONParse(raw, <<>>)

\* the positive weights of a channel add up to total, and v is the share of
\* w in it to within one hundredth per key
ShareOf(v, w, total, n) == Abs(v * total - 10000 * w) <= n * total

\* C13: the dual normalizer (normalizeKPIWeights, getDefaultKPIWeights,
\* normalizeProjectWeights) returns the keys of its input, in their order,
\* for every input, the empty one included; a key whose weight is filtered
\* out of a channel has 0 in that channel and its share in the other.
C13_DualKeys ==
    fn \in {"text", "shape", "project", "noKey", "error"} =>
        LET in     == DualInput
            fTotal == SumValues(PositiveEntries(fieldWeightsMap(in)))
            hTotal == SumValues(PositiveEntries(hqWeightsMap(in)))
        IN  /\ Len(out) = Len(in)
            /\ \A i \in DOMAIN in :
                  /\ out[i].k = in[i].k
                  /\ IF in[i].fieldWeight <= 0 THEN out[i].fieldWeight = 0
                     ELSE ShareOf(out[i].fieldWeight, in[i].fieldWeight, fTotal, Len(in))
                  /\ IF in[i].hqWeight <= 0 THEN out[i].hqWeight = 0
                     ELSE ShareOf(out[i].hqWeight, in[i].hqWeight, hTotal, Len(in))

\* a key filtered out of the field channel only is returned with 0 and its
\* hq share, next to a key with weight in both channels
C13_Witness ==
    /\ fn = "project" /\ Len(raw) = 2
    /\ \E i \in DOMAIN raw :
          /\ raw[i].fieldWeight = 0 /\ raw[i].hqWeight > 0
          /\ out[i].fieldWeight = 0 /\ out[i].hqWeight > 0 /\ out[i].hqWeight < 10000

\* a channel (the weights ws of the input, the values vs returned) sums to
\* 100.00 within 0.01 when a weight is positive and is all 0 otherwise
ChannelNormalized(ws, vs) ==
    IF \E i \in DOMAIN ws : ws[i] > 0
    THEN Abs(SumSeq(vs) - 10000) <= 1
    ELSE \A i \in DOMAIN vs : vs[i] = 0

FieldChannel(m) == [i \in DOMAIN m |-> m[i].fieldWeight]
HqChannel(m) == [i \in DOMAIN m |-> m[i].hqWeight]

\* C27: the dual normalizer normalizes the two channels independently: a
\* channel with a positive input weight sums to 100.00 within 0.01, a
\* channel with none is 0 for every key, and the field channel returned
\* does not change when only hqWeight inputs change (and vice versa).
C27_IndependentChannels ==
    [][/\ fn' \in {"text", "shape", "project", "noKey", "error",
                   "hqChanged", "fieldChanged"} =>
             /\ ChannelNormalized(FieldChannel(DualInput'), FieldChannel(out'))
             /\ ChannelNormalized(HqChannel(DualInput'), HqChannel(out'))
       /\ fn' = "hqChanged" =>
             /\ FieldChannel(raw') = FieldChannel(raw)
             /\ FieldChannel(out') = FieldChannel(out)
       /\ fn' = "fieldChanged" =>
             /\ HqChannel(raw') = HqChannel(raw)
             /\ HqChannel(out') = HqChannel(out)]_vars

\* two keys with shares in both channels, normalized again after the hq
\* weights alone changed
C27_Witness ==
    /\ fn = "hqChanged" /\ Len(raw) = 2
    /\ \A i \in DOMAIN out :
          /\ out[i].fieldWeight > 0 /\ out[i].fieldWeight < 10000
          /\ out[i].hqWeight > 0 /\ out[i].hqWeight < 10000
    /\ out[1].fieldWeight # out[1].hqWeight

MaxOf(S) == CHOOSE x \in S : \A y \in S : y <= x

\* C14: when the weight source returns several entries of one name, the
\* deduplication before normalization leaves one entry of that name, with
\* the largest fieldWeight and, independently, the largest hqWeight of the
\* duplicates ({k: 10, 5} and {k: 20, 2} merge to {k: 20, 5}).
C14_MaxMerge ==
    fn = "deduped" =>
        \A i \in DOMAIN raw :
            /\ Cardinality({j \in DOMAIN out : out[j].k = raw[i].k}) = 1
            /\ \A j \in DOMAIN out :
                  out[j].k = raw[i].k =>
                      /\ out[j].fieldWeight =
                            MaxOf({raw[m].fieldWeight : m \in {x \in DOMAIN raw : raw[x].k = raw[i].k}})
                      /\ out[j].hqWeight =
                            MaxOf({raw[m].hqWeight : m \in {x \in DOMAIN raw : raw[x].k = raw[i].k}})

\* C15: the answer A: {30, 10}, B: {30, 40}, A: {40, 5} becomes the profile
\* A: {57.14, 20.00}, B: {42.86, 80.00}.
C15_EndToEnd ==
    (fn = "text" /\ raw = <<W("A", 30, 10), W("B", 30, 40), W("A", 40, 5)>>)
        => out = <<W("A", 5714, 2000), W("B", 4286, 8000)>>

\* the default table with each channel normalized to 100
DefaultProfile ==
    << W("Timeliness of DPR Submission", 1579, 476),
       W("Survey Accuracy and Completeness", 2105, 476),
       W("Quality of DPR Documentation", 1579, 952),
       W("Adherence to Project Timelines", 1579, 952),
       W("Expenditure Target Achievement", 1053, 952),
       W("Technical Compliance", 1053, 476),
       W("Site Coordination", 526, 476),
       W("Safety Standards Compliance", 526, 0),
       W("File Disposal Rate", 0, 1429),
       W("Responsiveness to Requests", 0, 1429),
       W("Digital Adoption Score", 0, 476),
       W("Quality of Drafting", 0, 476),
       W("Turnaround Time for Approvals", 0, 476),
       W("Policy Compliance", 0, 476),
       W("Interdepartmental Coordination", 0, 478) >>

\* C19: analyzeKPIWithGemini returns a profile for every outcome of the
\* call; without a credential, after a failed call, and for a text that does
\* not parse as the expected structure, the profile is the default table
\* normalized per channel.
C19_FallbackToDefaults ==
    fn \in {"noKey", "error", "shape"} => out = DefaultProfile

\* C16: deduplicateKPIs returns exactly one entry per distinct non-empty
\* name of the input, that entry being the first element of the input that
\* has the largest weight among the elements of its name; the output is not
\* longer than the input and holds no name the input does not hold.
C16_OnePerName ==
    fn = "dedup" =>
        /\ Len(out) <= Len(raw)
        /\ \A i, j \in DOMAIN out : nameOf(out[i]) = nameOf(out[j]) => i = j
        /\ {nameOf(out[j]) : j \in DOMAIN out} = {nameOf(raw[i]) : i \in DOMAIN raw} \ {""}
        /\ \A j \in DOMAIN out :
              \E i \in DOMAIN raw :
                  /\ out[j] = raw[i]
                  /\ \A m \in DOMAIN raw :
                        nameOf(raw[m]) = nameOf(raw[i]) =>
                            \/ weightOf(raw[m]) < weightOf(raw[i])
                            \/ (weightOf(raw[m]) = weightOf(raw[i])
                                  /\ (m >= i \/ raw[m] = raw[i]))

\* two different elements of one name and one weight: the first is kept
C16_Witness ==
    /\ fn = "dedup" /\ Len(out) = 1 /\ Len(raw) >= 2
    /\ raw[1] # raw[2] /\ nameOf(raw[1]) = nameOf(raw[2])
    /\ weightOf(raw[1]) = weightOf(raw[2])
    /\ \A m \in DOMAIN raw : nameOf(raw[m]) # "" => weightOf(raw[m]) <= weightOf(raw[1])
    /\ out[1] = raw[1]

\* ------------------------------------------- claims on the KPI application

\* the loosest tolerance the program applies to a total (0.5), in hundredths
WeightTolerance == 50

\* the employee's project-specific documents
ProjectSpecific == SelectSeq(kpis, LAMBDA r : r.assignedTo = Employee /\ r.isProjectSpecific)

SumWeightage(ks) == SumSeq([i \in DOMAIN ks |-> ks[i].weightage])

AppliedOk == last.op = "apply" /\ last.status = 201

\* C3: every precondition failure of ApplyProjectWeights returns its error
\* before any KPI record is deleted: on every error outcome the Kpi
\* collection is as it was before the request.
C3_ErrorsDeleteNothing ==
    [][(last'.op = "apply" /\ served' = served + 1 /\ last'.status # 201)
          => kpis' = kpis]_vars

\* C4: ApplyProjectWeights(p, e) served twice in a row (same period) leaves
\* after the second call the project-specific names and weightages the first
\* call left, the second call succeeds, and the count it reports as deleted
\* is the updatedCount of the first.
C4_ApplyTwice ==
    (/\ last.op = "apply" /\ last.role = "admin" /\ last.e = Employee
     /\ prev.applied /\ prev.p = last.p /\ prev.period = last.period)
        => /\ last.status = 201
           /\ projectSpecificOf(kpis, Employee) = prev.ps
           /\ last.deletedOldKPIs = prev.updatedCount
           /\ last.updatedCount = prev.updatedCount

\* the second of two successful applications of the same project, which
\* left records of positive weight
C4_Witness ==
    /\ AppliedOk /\ prev.applied /\ prev.p = last.p /\ prev.period = last.period
    /\ last.deletedOldKPIs > 0
    /\ \E i \in DOMAIN ProjectSpecific : ProjectSpecific[i].weightage > 0

\* C5: after a successful ApplyProjectWeights(p2, e) that follows an earlier
\* successful ApplyProjectWeights(p1, e), no project-specific record of e
\* carries p1 and every one carries p2.
C5_Isolation ==
    \A p1 \in applied :
        (AppliedOk /\ p1 # last.p)
            => \A i \in DOMAIN ProjectSpecific :
                  /\ ProjectSpecific[i].projectId # p1
                  /\ ProjectSpecific[i].projectId = last.p

\* p2 applied right after p1, both with success, and records were replaced
C5_Witness ==
    /\ AppliedOk /\ prev.applied /\ prev.p # last.p
    /\ prev.p \in applied
    /\ last.deletedOldKPIs > 0
    /\ Len(ProjectSpecific) > 0

\* C6: in every reachable state all project-specific records of the employee
\* carry the same projectId.
C6_OneProjectPerEmployee ==
    \A i, j \in DOMAIN ProjectSpecific :
        ProjectSpecific[i].projectId = ProjectSpecific[j].projectId

\* C7: whenever the employee has a project-specific record, the weightages
\* of the project-specific records sum to 100 within tolerance.
C7_ProjectSpecificSum ==
    Len(ProjectSpecific) > 0
        => Abs(SumWeightage(ProjectSpecific) - 10000) <= WeightTolerance

\* some default KPI of the request's period has a positive weight for the
\* employee's type in the profile of the project applied last
SomePositiveWeight ==
    \E i \in DOMAIN kpis :
        /\ kpis[i].assignedTo = Employee /\ kpis[i].isDefault
        /\ kpis[i].period = last.period
        /\ targetWeight(projects[last.p].kpiWeights, employerTypeOf(users),
                        kpis[i].kpiName) > 0

\* C8: right after a successful ApplyProjectWeights in which some default KPI
\* name has a positive weight for the employee's type, the weightages of the
\* inserted project-specific records sum to exactly 100.00.
C8_AppliedSum ==
    (AppliedOk /\ SomePositiveWeight) => SumWeightage(ProjectSpecific) = 10000

\* three names share the weight equally, so the last takes the drift
C8_Witness ==
    /\ AppliedOk /\ SomePositiveWeight
    /\ \E i \in DOMAIN ProjectSpecific : ProjectSpecific[i].weightage = 3334
    /\ \E i \in DOMAIN ProjectSpecific : ProjectSpecific[i].weightage = 3333
    /\ SumWeightage(ProjectSpecific) = 10000

\* ApplyProjectWeights was served in this step, by an administrator, for an
\* employee that exists
ApplyServed ==
    /\ served' = served + 1 /\ last'.op = "apply"
    /\ last'.role = "admin" /\ last'.p # "" /\ last'.e = Employee

\* the project does not exist, or has no profile, or an empty one
NoProfile(p) ==
    \/ p \notin ProjectIds
    \/ ~projects[p].exists
    \/ ~projects[p].hasWeights
    \/ projects[p].kpiWeights = <<>>

\* C17: ApplyProjectWeights fails with NotFound or InvalidState and changes
\* no KPI record whenever the project does not exist or its profile is
\* missing or empty (no KPI name).
C17_NoProfileNoChange ==
    [][(ApplyServed /\ NoProfile(last'.p))
          => (last'.status \in {400, 404} /\ kpis' = kpis)]_vars

\* a DPR was stored in this step and the recalculation ran
DprServed == served' = served + 1 /\ last'.op = "dpr" /\ last'.status = 201

\* the names of p's profile whose normalized weight for the employee's type
\* is under 5%
BelowMin(p) ==
    IF p \in ProjectIds /\ projects[p].exists /\ projects[p].hasWeights
    THEN LET nw == normalizeProjectWeights(projects[p].kpiWeights, employerTypeOf(users))
         IN  {nw[i].k : i \in {j \in DOMAIN nw :
                                  weightToUse(nw[j], employerTypeOf(users)) < MinWeight}}
    ELSE {}

\* what creating or updating a record sets
Core(r) ==
    <<r.kpiName, r.assignedTo, r.weightage, r.isDefault, r.isProjectSpecific,
      r.projectId, r.originalWeightage, r.period>>

\* the recalculation created and updated no record of a name under 5%
SkippedByRecalculation(before, after, p) ==
    LET below == BelowMin(p)
        cores == {Core(before[j]) : j \in DOMAIN before}
    IN  \A i \in DOMAIN after :
            after[i].kpiName \in below => Core(after[i]) \in cores

\* the default KPIs of the period that the application cloned
ClonedDefaults(ks, period) ==
    SelectSeq(ks, LAMBDA r : r.assignedTo = Employee /\ r.isDefault
                             /\ ~r.isProjectSpecific /\ r.period = period)

\* C18 as stated: the recalculation creates and updates no record of a KPI
\* whose normalized weight for the employee's type is under 5%, and a
\* successful ApplyProjectWeights leaves, for every KPI of the profile with
\* a positive weight under 5%, a project-specific record carrying that
\* weight.
C18_ThresholdSkip ==
    [][/\ DprServed => SkippedByRecalculation(kpis, kpis', last'.p)
       /\ (ApplyServed /\ last'.status = 201) =>
             LET nw == normalizeProjectWeights(projects[last'.p].kpiWeights,
                                               employerTypeOf(users))
             IN  \A i \in DOMAIN nw :
                    LET w == weightToUse(nw[i], employerTypeOf(users))
                    IN  (w > 0 /\ w < MinWeight) =>
                           \E j \in DOMAIN kpis' :
                               /\ kpis'[j].isProjectSpecific /\ ~kpis'[j].isDefault
                               /\ kpis'[j].projectId = last'.p
                               /\ kpis'[j].kpiName = nw[i].k
                               /\ kpis'[j].weightage = w]_vars

\* every clone is of a default, and every default has a clone for p whose
\* weightage is the share of its profile weight among the positive profile
\* weights of the defaults, or 0 when its profile weight is not positive
ClonesAreShares(defaults, clones, profile, p) ==
    \A tws \in {[i \in DOMAIN defaults |->
                    targetWeight(profile, employerTypeOf(users), defaults[i].kpiName)]} :
    \A total \in {SumSeq([i \in DOMAIN defaults |-> IF tws[i] > 0 THEN tws[i] ELSE 0])} :
        /\ \A i \in DOMAIN clones :
              \E d \in DOMAIN defaults : defaults[d].kpiName = clones[i].kpiName
        /\ \A d \in DOMAIN defaults :
              \E i \in DOMAIN clones :
                  /\ clones[i].kpiName = defaults[d].kpiName
                  /\ clones[i].projectId = p
                  /\ IF tws[d] > 0
                     THEN ShareOf(clones[i].weightage, tws[d], total, Len(defaults))
                     ELSE clones[i].weightage = 0

\* C18 amended: the recalculation creates and updates no record of a KPI
\* whose normalized weight for the employee's type is under 5%;
\* ApplyProjectWeights has no threshold: for every default KPI of the period
\* it leaves a project-specific record whose weightage is the share of the
\* KPI's profile weight among the positive profile weights of the default
\* KPIs (0 when the KPI has no positive weight in the profile), however
\* small, and no record for a KPI that is not among the defaults.
C18_ThresholdOnlyInRecalculation ==
    [][/\ DprServed => SkippedByRecalculation(kpis, kpis', last'.p)
       /\ (ApplyServed /\ last'.status = 201) =>
             ClonesAreShares(ClonedDefaults(kpis', last'.period),
                             SelectSeq(kpis', LAMBDA r : r.assignedTo = Employee
                                                        /\ r.isProjectSpecific),
                             projects[last'.p].kpiWeights, last'.p)]_vars

\* the application left a record under 5%, and the DPR that followed for
\* the same project neither kept it nor made the default of its name
\* project-specific
C18_Witness ==
    /\ last.op = "dpr" /\ last.status = 201
    /\ prev.applied /\ prev.p = last.p
    /\ \E i \in DOMAIN prev.ps :
          /\ prev.ps[i][2] > 0 /\ prev.ps[i][2] < MinWeight
          /\ prev.ps[i][1] \in BelowMin(last.p)
          /\ \A j \in DOMAIN kpis :
                kpis[j].kpiName = prev.ps[i][1] => ~kpis[j].isProjectSpecific

\* C20: when the caller of ApplyProjectWeights or of the KPI analysis is not
\* an administrator, the answer is Forbidden and no project, user, KPI or
\* summary record is created, changed or deleted.
C20_ForbiddenNoEffect ==
    [][(/\ served' = served + 1 /\ last'.op \in {"apply", "analyze"}
        /\ last'.role # "admin")
          => (/\ last'.status = 403
              /\ UNCHANGED <<projects, users, kpis, summaries>>)]_vars

\* an employee's request to apply a profile that an administrator could
\* have applied, refused with records left in place
C20_Witness ==
    /\ last.op = "apply" /\ last.role = "employee" /\ last.status = 403
    /\ last.p \in ProjectIds /\ projects[last.p].hasWeights
    /\ Len(findDefaultKpis(kpis, Employee, last.period)) > 0
    /\ Len(ProjectSpecific) > 0

\* C22: after a successful ApplyProjectWeights(p, e) the employee has
\* exactly one project-specific record per default KPI record of the
\* requested period; each has isDefault = false, projectId = p, progress =
\* score = achievedValue = 0, the default's weightage as originalWeightage
\* and the normalized weight of its name as weightage (0 when the name is
\* absent from the profile or its weight for the employee's type is not
\* positive); updatedCount is the number of default records.
C22_ClonesOfDefaults ==
    [][(ApplyServed /\ last'.status = 201) =>
          \A defaults \in {SelectSeq(kpis', LAMBDA r : r.assignedTo = Employee /\ r.isDefault
                                                       /\ r.period = last'.period)} :
          \A clones \in {SelectSeq(kpis', LAMBDA r : r.assignedTo = Employee
                                                     /\ r.isProjectSpecific)} :
              /\ Len(clones) = Len(defaults)
              /\ last'.updatedCount = Len(defaults)
              /\ \A d \in DOMAIN defaults :
                    /\ Cardinality({i \in DOMAIN clones :
                                       clones[i].kpiName = defaults[d].kpiName}) = 1
                    /\ \A i \in DOMAIN clones :
                          clones[i].kpiName = defaults[d].kpiName =>
                              /\ ~clones[i].isDefault
                              /\ clones[i].projectId = last'.p
                              /\ clones[i].period = defaults[d].period
                              /\ clones[i].progress = 0 /\ clones[i].score = 0
                              /\ clones[i].achievedValue = 0
                              /\ clones[i].originalWeightage = defaults[d].weightage
              /\ ClonesAreShares(defaults, clones, projects[last'.p].kpiWeights, last'.p)]_vars

\* clones of defaults that the analysis had scored: a clone with a share
\* of the profile, one with 0, and older project-specific records deleted
C22_Witness ==
    /\ AppliedOk /\ last.deletedOldKPIs > 0
    /\ \E i, j \in DOMAIN kpis :
          /\ kpis[i].isProjectSpecific /\ kpis[i].weightage > 0
          /\ kpis[i].weightage # kpis[i].originalWeightage
          /\ kpis[j].isProjectSpecific /\ kpis[j].weightage = 0
    /\ \E d \in DOMAIN kpis : kpis[d].isDefault /\ kpis[d].score > 0

\* the recalculation ran for a project that has a profile
Recalculated ==
    /\ DprServed
    /\ last'.p \in ProjectIds /\ projects[last'.p].exists /\ projects[last'.p].hasWeights

\* the names of p's profile with a normalized weight of at least 5% for the
\* employee's type, each with that weight
SelectedWeights(p) ==
    LET nw == normalizeProjectWeights(projects[p].kpiWeights, employerTypeOf(users))
    IN  {<<nw[i].k, weightToUse(nw[i], employerTypeOf(users))>> :
            i \in {j \in DOMAIN nw :
                      weightToUse(nw[j], employerTypeOf(users)) >= MinWeight}}

\* every selected name has exactly one record, with the normalized weight,
\* project-specific and of project p
SelectedAreSet(ks, sel, p) ==
    \A nw \in sel :
        /\ Cardinality({i \in DOMAIN ks : ks[i].kpiName = nw[1]}) = 1
        /\ \A i \in DOMAIN ks :
              ks[i].kpiName = nw[1] =>
                  /\ ks[i].weightage = nw[2] /\ ks[i].isProjectSpecific
                  /\ ks[i].projectId = p

\* the records whose names are not selected, as (name, weightage, project)
Unselected(ks, sel) ==
    LET rest == SelectSeq(ks, LAMBDA r : r.kpiName \notin {nw[1] : nw \in sel})
    IN  [i \in DOMAIN rest |-> <<rest[i].kpiName, rest[i].weightage, rest[i].projectId>>]

\* the first record of every name
RECURSIVE FirstOfEachName(_, _)
FirstOfEachName(ks, seen) ==
    IF ks = <<>> THEN <<>>
    ELSE IF Head(ks).kpiName \in seen THEN FirstOfEachName(Tail(ks), seen)
    ELSE <<Head(ks)>> \o FirstOfEachName(Tail(ks), seen \cup {Head(ks).kpiName})

C28_DefaultsUntouched ==
    [][(served' = served + 1 /\ last'.op \in {"createDefaults", "dpr", "apply"}) =>
          \A i \in DOMAIN kpis :
              kpis[i].isDefault =>
                  \E j \in DOMAIN kpis' :
                      /\ kpis'[j].isDefault
                      /\ kpis'[j].kpiName = kpis[i].kpiName
                      /\ kpis'[j].period = kpis[i].period
                      /\ kpis'[j].weightage = kpis[i].weightage
                      /\ ~kpis'[j].isProjectSpecific]_vars

\* ------------------------------------------------ claims on the final score

\* the names that have a score and a weight
ScoredNames == {raw.kpiScores[i].k : i \in DOMAIN raw.kpiScores}
                   \cap {raw.weights[i].k : i \in DOMAIN raw.weights}

RECURSIVE SumOver(_, _)
SumOver(S, f) ==
    IF S = {} THEN 0
    ELSE LET x == CHOOSE y \in S : TRUE IN f[x] + SumOver(S \ {x}, f)

ScoreAt == [n \in ScoredNames |-> GetOrZero(raw.kpiScores, n)]
WeightAt == [n \in ScoredNames |-> GetOrZero(raw.weights, n)]

ProjectSpecificCount(ks, e, n) ==
    Cardinality({i \in DOMAIN ks :
                    ks[i].assignedTo = e /\ ks[i].isProjectSpecific /\ ks[i].kpiName = n})

HeldCount(defaultKpis, n) ==
    Cardinality({i \in DOMAIN defaultKpis : defaultKpis[i].kpiName = n})

KpiNames == {kpis[i].kpiName : i \in DOMAIN kpis}

\* C21: when two ApplyProjectWeights requests for the employee interleave,
\* a delete step that finds no project-specific record (the other request
\* deleted them already) changes nothing, and an insert step adds one
\* project-specific record per default record it holds to whatever the
\* collection contains: the clones another request inserted after this
\* request's delete step stay, so the employee ends with two
\* project-specific records of the same kpiName.
C21_BothInsertsTakeEffect ==
    [][\A r \in Requests :
          /\ (inflight[r].pc = "checked" /\ inflight'[r].pc = "deleted"
                 /\ inflight'[r].deleted = 0) => kpis' = kpis
          /\ (inflight[r].pc = "found" /\ inflight'[r].pc = "done") =>
                 /\ last'.status = 201
                 /\ \A i \in DOMAIN kpis : kpis'[i] = kpis[i]
                 /\ \A n \in {kpis'[i].kpiName : i \in DOMAIN kpis'} :
                        ProjectSpecificCount(kpis', inflight[r].e, n)
                            = ProjectSpecificCount(kpis, inflight[r].e, n)
                                + HeldCount(inflight[r].defaultKpis, n)]_vars

\* both requests were answered 201, neither deleted anything, and the
\* employee holds two project-specific records of one name
C21_Witness ==
    /\ \A r \in Requests : inflight[r].pc = "done" /\ inflight[r].defaultKpis # <<>>
                                /\ inflight[r].deleted = 0
    /\ last.op = "apply" /\ last.status = 201
    /\ \E n \in KpiNames : ProjectSpecificCount(kpis, Employee, n) = 2


\* ------------------------------------------------- claims on the APARs

Patched == last'.op = "patch" /\ served' = served + 1

OwnerOf(a, userId) == a.employee = userId \/ a.userId = userId

\* C29: a PATCH or PUT by a caller who is not an administrator deletes no
\* APAR and changes no finalScore, reviewer, reviewerScore or
\* reviewerComments; it changes the selfAppraisal only of the draft it names
\* when the caller owns it, the status only of such a draft and only to
\* 'submitted', and nothing of an APAR that is not a draft.
C29_OwnerDraftFrame ==
    [][(Patched /\ last'.role # "admin") =>
          \A i \in DOMAIN apars :
              \E j \in DOMAIN apars' :
                  /\ apars'[j].id = apars[i].id
                  /\ apars'[j].finalScore = apars[i].finalScore
                  /\ apars'[j].reviewer = apars[i].reviewer
                  /\ apars'[j].reviewerScore = apars[i].reviewerScore
                  /\ apars'[j].reviewerComments = apars[i].reviewerComments
                  /\ apars'[j] # apars[i] =>
                        /\ apars[i].status = "draft"
                        /\ apars[i].id = last'.id
                        /\ OwnerOf(apars[i], last'.userId)
                        /\ apars'[j].status \in {"draft", "submitted"}]_vars
====
